---- MODULE Spec2Model ----
(***************************************************************************)
(* A model of the markdown plugins of the repository:                      *)
(*   - remarkGloss (interlinear gloss blocks): extractLines,               *)
(*     parseLinePrefix, parseGlossNode, buildColumns and the visitor that  *)
(*     rewrites a gloss directive in place;                                *)
(*   - rehypeTypst: the concurrent visitors that replace math elements.    *)
(* Strings are sequences of one-character strings, so that splitting and   *)
(* prefix matching are computed character by character.                    *)
(***************************************************************************)
EXTENDS Integers, Sequences, FiniteSets, TLC

VARIABLES
    source,      \* the document as the host pipeline handed it over (never written)
    tree,        \* root.children of the mdast tree remarkGloss rewrites in place
    cursor,      \* index of the next node of the walk: the nodes before it were visited
    parseResult, \* the visitor's local parseResult of the last gloss block
    thrown,      \* <<>> or <<[message, node]>>: what file.fail threw
    call,        \* the pure function a harness state is about to apply / applied
    arg,         \* its argument
    res,         \* <<>> before the call, <<result>> after it
    elems,       \* rehypeTypst: tagName and className of every element of the hast tree
    kids,        \* rehypeTypst: the children array of the root (0) and of every element
    visitors     \* rehypeTypst: one async visitor call per entry of matches

glossVars == <<source, tree, cursor, parseResult, thrown>>
fnVars    == <<call, arg, res>>
typstVars == <<elems, kids, visitors>>
vars      == <<source, tree, cursor, parseResult, thrown, call, arg, res, elems, kids, visitors>>

\* The parts of the state a specification does not use.
IdleGloss ==
    /\ source = <<>> /\ tree = <<>> /\ cursor = 1
    /\ parseResult = <<>> /\ thrown = <<>>
IdleFn    == call = "none" /\ arg = <<>> /\ res = <<>>
IdleTypst == elems = <<>> /\ kids = <<>> /\ visitors = <<>>

---------------------------------------------------------------------------
(* Bounds of the model *)

MaxTextLen == 2     \* characters of a text node (extractLines inputs)
MaxInline  == 2     \* inline children of a paragraph (extractLines inputs)
MaxPrefixLen == 2   \* characters of the first span (parseLinePrefix inputs)
MaxRest    == 1     \* later spans of the first word, and later words (parseLinePrefix inputs)
MaxRows    == 3     \* rows handed to buildColumns
MaxRowWords == 3    \* words of a row handed to buildColumns
MaxLines   == 3     \* lines of a generated gloss block
MaxBlocks  == 3     \* top-level nodes of a document
MaxTop     == 3     \* children of the hast root (rehypeTypst inputs)

---------------------------------------------------------------------------
(* Inline content (mdast PhrasingContent) *)

Text(s)  == [type |-> "text", value |-> s]
Break    == [type |-> "break"]
Rich(k)  == [type |-> "emphasis", id |-> k]

None     == <<>>
Some(x)  == <<x>>

\* JavaScript's \s, restricted to the characters the model uses.
IsSpace(c) == c \in {" ", "\t", "\n"}

\* Sequences over S of length at most n.
SeqUpTo(S, n) == UNION {[1..k -> S] : k \in 0..n}

\* Concatenation of a sequence of sequences.
RECURSIVE Flatten(_)
Flatten(ss) == IF ss = <<>> THEN <<>> ELSE Head(ss) \o Flatten(Tail(ss))

---------------------------------------------------------------------------
(* extractLines, processTextNode, processTextLine *)

\* text.split(sep) for a one-character separator: the pieces, empty ones kept.
RECURSIVE SplitOn(_, _)
SplitOn(text, sep) ==
    IF \E i \in 1..Len(text) : text[i] = sep
    THEN LET i == CHOOSE k \in 1..Len(text) :
                      text[k] = sep /\ \A j \in 1..(k - 1) : text[j] # sep
         IN  <<SubSeq(text, 1, i - 1)>> \o SplitOn(SubSeq(text, i + 1, Len(text)), sep)
    ELSE <<text>>

\* text.split(/(\s+)/): pieces and the captured maximal whitespace runs alternate,
\* pieces at the edges may be empty.
RECURSIVE SplitSpace(_)
SplitSpace(text) ==
    IF \E i \in 1..Len(text) : IsSpace(text[i])
    THEN LET s == CHOOSE k \in 1..Len(text) :
                      IsSpace(text[k]) /\ \A j \in 1..(k - 1) : ~IsSpace(text[j])
             e == CHOOSE k \in s..Len(text) :
                      /\ \A j \in s..k : IsSpace(text[j])
                      /\ (k = Len(text) \/ ~IsSpace(text[k + 1]))
         IN  <<SubSeq(text, 1, s - 1), SubSeq(text, s, e)>>
                 \o SplitSpace(SubSeq(text, e + 1, Len(text)))
    ELSE <<text>>

\* /^\s+$/.test(token)
AllSpace(token) == Len(token) > 0 /\ \A i \in 1..Len(token) : IsSpace(token[i])

\* lines.push([[]])
PushLine(lines) == Append(lines, <<<<>>>>)

\* lines.at(-1).push([])
PushWord(lines) ==
    LET last == lines[Len(lines)]
    IN  [lines EXCEPT ![Len(lines)] = Append(last, <<>>)]

\* lines.at(-1).at(-1).push(node)
PushSpan(lines, node) ==
    LET last == lines[Len(lines)]
        word == last[Len(last)]
    IN  [lines EXCEPT ![Len(lines)] = [last EXCEPT ![Len(last)] = Append(word, node)]]

RECURSIVE TokenLoop(_, _)
TokenLoop(tokens, lines) ==
    IF tokens = <<>> THEN lines
    ELSE LET token == Head(tokens)
         IN  IF token = <<>> THEN TokenLoop(Tail(tokens), lines)
             ELSE IF AllSpace(token) THEN TokenLoop(Tail(tokens), PushWord(lines))
             ELSE TokenLoop(Tail(tokens), PushSpan(lines, Text(token)))

processTextLine(text, lines) == TokenLoop(SplitSpace(text), lines)

RECURSIVE TextLineLoop(_, _, _)
TextLineLoop(textLines, i, lines) ==
    IF i > Len(textLines) THEN lines
    ELSE TextLineLoop(textLines, i + 1,
             processTextLine(textLines[i], IF i > 1 THEN PushLine(lines) ELSE lines))

processTextNode(text, lines) == TextLineLoop(SplitOn(text, "\n"), 1, lines)

RECURSIVE ChildLoop(_, _)
ChildLoop(children, lines) ==
    IF children = <<>> THEN lines
    ELSE LET child == Head(children)
         IN  IF child.type = "break" THEN ChildLoop(Tail(children), PushLine(lines))
             ELSE IF child.type = "text"
                  THEN ChildLoop(Tail(children), processTextNode(child.value, lines))
             ELSE ChildLoop(Tail(children), PushSpan(lines, child))

NonEmpty(s) == Len(s) > 0

\* lines.map(line => line.filter(word => word.length > 0))
DropEmptyWords(lines) == [i \in 1..Len(lines) |-> SelectSeq(lines[i], NonEmpty)]

\* Mutant of DropEmptyLines: the final filter is forgotten.
DropEmptyLinesNone(lines) == lines

\* .filter(line => line.length > 0)
DropEmptyLines(lines) == SelectSeq(lines, NonEmpty)

extractLines(paragraph) ==
    DropEmptyLines(DropEmptyWords(ChildLoop(paragraph.children, <<<<<<>>>>>>)))

---------------------------------------------------------------------------
(* parseLinePrefix *)

Markers == {"|", "/", "="}

\* prefixMatch[0].length for /^([|/=])\s*/: the marker and the whitespace run after it.
RECURSIVE SpaceRun(_, _)
SpaceRun(text, from) ==
    IF from <= Len(text) /\ IsSpace(text[from]) THEN 1 + SpaceRun(text, from + 1) ELSE 0

PrefixMatches(text) == Len(text) > 0 /\ text[1] \in Markers

\* Mutant of PrefixMatchLength: the pattern lacks its \s*.
PrefixMatchLengthMarkerOnly(text) == 1

PrefixMatchLength(text) == 1 + SpaceRun(text, 2)

\* firstWord with the marker stripped from its first span; the span is dropped when
\* nothing of it remains.
NewFirstWord(firstWord, remainder) ==
    IF Len(remainder) > 0
    THEN <<Text(remainder)>> \o Tail(firstWord)
    ELSE Tail(firstWord)

\* Mutant of NewWords: the emptied first word is kept.
NewWordsKeepEmpty(words, newFirstWord) == <<newFirstWord>> \o Tail(words)

NewWords(words, newFirstWord) ==
    IF Len(newFirstWord) > 0
    THEN <<newFirstWord>> \o Tail(words)
    ELSE Tail(words)

\* The meta branch's loop: the words' spans, a " " text span between adjacent words.
RECURSIVE ContentLoop(_, _, _)
ContentLoop(newWords, i, content) ==
    IF i > Len(newWords) THEN content
    ELSE ContentLoop(newWords, i + 1,
             (IF i > 1 THEN Append(content, Text(<<" ">>)) ELSE content) \o newWords[i])

parseLinePrefix(words) ==
    IF Len(words) = 0 THEN [type |-> "text", words |-> <<>>]
    ELSE LET firstWord == words[1] IN
    IF Len(firstWord) = 0 THEN [type |-> "text", words |-> words]
    ELSE LET firstNode == firstWord[1] IN
    IF firstNode.type # "text" THEN [type |-> "text", words |-> words]
    ELSE LET text == firstNode.value IN
    IF ~PrefixMatches(text) THEN [type |-> "text", words |-> words]
    ELSE LET prefix    == text[1]
             remainder == SubSeq(text, PrefixMatchLength(text) + 1, Len(text))
             newWords  == NewWords(words, NewFirstWord(firstWord, remainder))
         IN  IF prefix = "|"
             THEN [type |-> "meta", content |-> ContentLoop(newWords, 1, <<>>)]
             ELSE IF prefix = "/"
             THEN [type |-> "transliteration", words |-> newWords]
             ELSE [type |-> "gloss", words |-> newWords]

---------------------------------------------------------------------------
(* buildColumns, createColumn *)

RECURSIVE MaxOf(_, _)
MaxOf(m, ns) ==
    IF ns = <<>> THEN m
    ELSE MaxOf(IF Head(ns) > m THEN Head(ns) ELSE m, Tail(ns))

\* Mutant of NumColumns: the first row alone decides.
NumColumnsFirstRow(rows) == IF rows = <<>> THEN 0 ELSE Len(rows[1].words)

\* Math.max(0, ...rows.map((row) => row.words.length))
NumColumns(rows) == MaxOf(0, [i \in 1..Len(rows) |-> Len(rows[i].words)])

\* Mutant of ColumnWords: an index past the end of a row reads the row's last word.
ColumnWordsClamped(rows, col) ==
    [i \in 1..Len(rows) |->
        [type |-> rows[i].type,
         word |-> IF col <= Len(rows[i].words) THEN Some(rows[i].words[col])
                  ELSE IF Len(rows[i].words) > 0
                  THEN Some(rows[i].words[Len(rows[i].words)])
                  ELSE None]]

\* rows.map((row) => ({type: row.type, word: row.words[col]})); col counts from 1
\* here. An index past the end of row.words reads undefined: None.
ColumnWords(rows, col) ==
    [i \in 1..Len(rows) |->
        [type |-> rows[i].type,
         word |-> IF col <= Len(rows[i].words) THEN Some(rows[i].words[col]) ELSE None]]

\* The list item of one cell: `word && word.length > 0 ? [paragraph] : []`.
CellItem(cw) ==
    [type     |-> "listItem",
     spread   |-> FALSE,
     data     |-> [class |-> "gloss-word gloss-word-" \o cw.type],
     children |-> IF cw.word # None /\ Len(cw.word[1]) > 0
                  THEN <<[type |-> "paragraph", children |-> cw.word[1]]>>
                  ELSE <<>>]

createColumn(words) ==
    [type     |-> "listItem",
     children |-> <<[type     |-> "list",
                     ordered  |-> TRUE,
                     spread   |-> FALSE,
                     data     |-> [hName |-> "ol", class |-> "gloss-column"],
                     children |-> [i \in 1..Len(words) |-> CellItem(words[i])]]>>]

buildColumns(rows) ==
    [col \in 1..NumColumns(rows) |-> createColumn(ColumnWords(rows, col))]

---------------------------------------------------------------------------
(* parseGlossNode *)

\* One Line of parseGlossNode from one parsed line.
LineOf(parsed) ==
    IF parsed.type = "meta"
    THEN [type |-> "meta", content |-> parsed.content]
    ELSE [type |-> "row", row |-> [type |-> parsed.type, words |-> parsed.words]]

\* The inner loop: the lines of one paragraph, classified.
ParagraphLines(child) ==
    LET extractedLines == extractLines(child)
    IN  [i \in 1..Len(extractedLines) |-> LineOf(parseLinePrefix(extractedLines[i]))]

\* Mutant of ClassifiedLines: the loop ends after the first paragraph.
ClassifiedLinesFirstParagraph(children) ==
    LET paragraphs == SelectSeq(children, LAMBDA c : c.type = "paragraph")
    IN  IF paragraphs = <<>> THEN <<>> ELSE ParagraphLines(paragraphs[1])

\* The first loop: the lines of the node's paragraph children, in child order.
RECURSIVE ClassifiedLines(_)
ClassifiedLines(children) ==
    IF children = <<>> THEN <<>>
    ELSE (IF Head(children).type = "paragraph" THEN ParagraphLines(Head(children)) ELSE <<>>)
             \o ClassifiedLines(Tail(children))

StructuralMessage ==
    "Header and footer lines denoted by '|' may only appear at the beginning or end of a gloss block"

\* Mutant of Misplaced: the last index is taken to be lines.length.
MisplacedOffByOne(i, n) == i # 1 /\ i # n + 1

\* Whether the meta line at index i (from 1) of n lines is misplaced:
\* `i !== 0 && i !== lines.length - 1` on the 0-based index.
Misplaced(i, n) == i # 1 /\ i # n

\* The second loop. acc holds the locals header, footer and rows; threw is set when the
\* loop leaves by the throw, the locals then being what had been built so far.
RECURSIVE PlacementLoop(_, _, _)
PlacementLoop(lines, i, acc) ==
    IF i > Len(lines) THEN acc
    ELSE LET line == lines[i] IN
         IF line.type = "meta"
         THEN IF Misplaced(i, Len(lines)) THEN [acc EXCEPT !.threw = TRUE]
              ELSE IF i = 1
              THEN PlacementLoop(lines, i + 1, [acc EXCEPT !.header = Some(line.content)])
              ELSE PlacementLoop(lines, i + 1, [acc EXCEPT !.footer = Some(line.content)])
         ELSE PlacementLoop(lines, i + 1, [acc EXCEPT !.rows = Append(@, line.row)])

\* header and footer are None for null.
parseGlossNode(node) ==
    PlacementLoop(ClassifiedLines(node.children), 1,
                  [threw |-> FALSE, header |-> None, footer |-> None, rows |-> <<>>])

---------------------------------------------------------------------------
(* remarkGloss *)

createHeader(content) ==
    [type     |-> "paragraph",
     data     |-> [hName |-> "figcaption", class |-> "gloss-header"],
     children |-> content]

createWordGrid(columns) ==
    [type     |-> "list",
     ordered  |-> TRUE,
     spread   |-> FALSE,
     data     |-> [hName |-> "ol", class |-> "gloss-body"],
     children |-> columns]

createFooter(content) ==
    [type     |-> "paragraph",
     data     |-> [hName |-> "p", class |-> "gloss-footer"],
     children |-> content]

FigureData == Some([hName |-> "figure", class |-> "gloss"])

\* Lines 66-79: the node rewritten from a parse result. An array is truthy in
\* JavaScript even when empty, so `if (header)` only tests for null.
Rewritten(node, gloss) ==
    LET columns == buildColumns(gloss.rows)
    IN  [node EXCEPT
            !.data = FigureData,
            !.children =
                (IF gloss.header # None THEN <<createHeader(gloss.header[1])>> ELSE <<>>)
                \o (IF Len(columns) > 0 THEN <<createWordGrid(columns)>> ELSE <<>>)
                \o (IF gloss.footer # None THEN <<createFooter(gloss.footer[1])>> ELSE <<>>)]

\* Mutant of NodeAfterVisit: the node is rewritten from whatever had been read when the
\* parse threw.
NodeAfterVisitPartial(node) == Rewritten(node, parseGlossNode(node))

\* The node after the visitor ran on it. When parseGlossNode throws, file.fail throws
\* in the catch clause and the lines after it never run.
NodeAfterVisit(node) ==
    LET r == parseGlossNode(node)
    IN  IF r.threw THEN node ELSE Rewritten(node, r)

IsGloss(node) == node.type = "containerDirective" /\ node.name = "gloss"

\* Mutant of Aborted: the failure is reported without ending the walk.
AbortedNever == FALSE

\* file.fail(message, node) throws a fatal VFileMessage (vfile: fail returns never);
\* nothing catches it, so visit() and the transform end there.
Aborted == thrown # <<>>

\* One call of the visitor by visit(tree, "containerDirective", ...), or the walk
\* passing a node of another type.
Visit ==
    /\ ~Aborted
    /\ cursor <= Len(tree)
    /\ LET node == tree[cursor] IN
       IF ~IsGloss(node)
       THEN /\ cursor' = cursor + 1
            /\ UNCHANGED <<tree, parseResult, thrown>>
       ELSE LET r == parseGlossNode(node) IN
            IF r.threw
            THEN /\ thrown' = Some([message |-> StructuralMessage, node |-> cursor])
                 /\ tree' = [tree EXCEPT ![cursor] = NodeAfterVisit(node)]
                 /\ parseResult' = None
                 /\ cursor' = cursor + 1
            ELSE /\ tree' = [tree EXCEPT ![cursor] = NodeAfterVisit(node)]
                 /\ parseResult' = Some([header |-> r.header, rows |-> r.rows,
                                         footer |-> r.footer])
                 /\ cursor' = cursor + 1
                 /\ UNCHANGED thrown
    /\ UNCHANGED <<source, fnVars, typstVars>>

\* The transform has returned or thrown.
Finished == Aborted \/ cursor > Len(tree)

Paragraph(children) == [type |-> "paragraph", children |-> children]
CodeNode(value) == [type |-> "code", value |-> value]
Directive(name, children) ==
    [type |-> "containerDirective", name |-> name, data |-> None, children |-> children]

\* A gloss block written as lines of text with a separator before every line but the
\* first: "nl" a newline inside the same text node, "br" a break node, "par" a new
\* paragraph, "code" a new paragraph after a code block that itself holds a meta line.
LineTexts ==
    { <<" ">>,
      <<"a", " ", "b">>,
      <<"|", " ", "c">>,
      <<"|", "d">>,
      <<"=">>,
      <<"/">> }
Separators == {"nl", "br", "par", "code"}

\* The inline children of the paragraph being written, after one more line.
AddInline(inl, sep, text) ==
    IF sep = "nl"
    THEN [inl EXCEPT ![Len(inl)] = Text(inl[Len(inl)].value \o <<"\n">> \o text)]
    ELSE inl \o <<Break, Text(text)>>

RECURSIVE BlockChildren(_, _, _, _, _)
BlockChildren(texts, seps, i, done, inl) ==
    IF i > Len(texts) THEN Append(done, Paragraph(inl))
    ELSE IF seps[i - 1] \in {"nl", "br"}
    THEN BlockChildren(texts, seps, i + 1, done, AddInline(inl, seps[i - 1], texts[i]))
    ELSE BlockChildren(texts, seps, i + 1,
             Append(done, Paragraph(inl))
                 \o (IF seps[i - 1] = "code" THEN <<CodeNode(<<"|", "x">>)>> ELSE <<>>),
             <<Text(texts[i])>>)

\* The children of the block written as the lines texts with the separators seps.
Lines(texts, seps) ==
    IF texts = <<>> THEN <<>>
    ELSE BlockChildren(texts, seps, 2, <<>>, <<Text(texts[1])>>)

InitGloss(document) ==
    /\ IdleFn /\ IdleTypst
    /\ source = document
    /\ tree = source
    /\ cursor = 1
    /\ parseResult = None
    /\ thrown = <<>>

\* Documents of several top-level nodes, each one of a few blocks: a gloss block with
\* header, rows and footer; one with rows only; one whose third line is an interior
\* meta line, after a header and a row were already read; one whose second line is;
\* a directive of another name; a plain paragraph.
BlockMenu ==
    { Directive("gloss", Lines(<<<<"|", " ", "c">>, <<"a", " ", "b">>, <<"=", " ", "g">>, <<"|", "d">>>>,
                               <<"nl", "nl", "par">>)),
      Directive("gloss", Lines(<<<<"a", " ", "b">>, <<"/", "t">>>>, <<"br">>)),
      Directive("gloss", Lines(<<<<"|", " ", "c">>, <<"a", " ", "b">>, <<"|", "d">>, <<"=">>>>,
                               <<"nl", "nl", "nl">>)),
      Directive("gloss", Lines(<<<<"a">>, <<"|", "d">>, <<"a">>>>, <<"par", "par">>)),
      Directive("note",  Lines(<<<<"a">>, <<"|", "d">>, <<"a">>>>, <<"nl", "nl">>)),
      Paragraph(<<Text(<<"a">>)>>) }

Init == \E document \in SeqUpTo(BlockMenu, MaxBlocks) : InitGloss(document)
Next == Visit
Spec == Init /\ [][Next]_vars

\* One gloss block alone in its document, every block of at most MaxLines lines.
InitBlock ==
    \E n \in 0..MaxLines :
        \E texts \in [1..n -> LineTexts], seps \in [1..(n - 1) -> Separators] :
            InitGloss(<<Directive("gloss", Lines(texts, seps))>>)
NextBlock == Visit
SpecBlock == InitBlock /\ [][NextBlock]_vars

---------------------------------------------------------------------------
(* rehypeTypst *)

Root == 0

\* The hast trees: the root's children are each a plain <p>, an inline math <span>,
\* a <pre> holding one math code block, or a <pre> holding two. The i-th child has
\* id i, its code children ids 10 * i + 1 and 10 * i + 2.
TopKinds == {"p", "inline", "block", "twin"}

TopElement(kind) ==
    CASE kind = "p"      -> [tagName |-> "p",    className |-> {}]
      [] kind = "inline" -> [tagName |-> "span", className |-> {"math-inline"}]
      [] OTHER           -> [tagName |-> "pre",  className |-> {}]

CodeElement == [tagName |-> "code", className |-> {"language-math"}]

CodeIds(shape, i) ==
    CASE shape[i] = "block" -> <<10 * i + 1>>
      [] shape[i] = "twin"  -> <<10 * i + 1, 10 * i + 2>>
      [] OTHER              -> <<>>

AllCodeIds(shape) == UNION {{CodeIds(shape, i)[j] : j \in 1..Len(CodeIds(shape, i))} : i \in 1..Len(shape)}

ElemsOf(shape) ==
    [id \in (1..Len(shape)) \cup AllCodeIds(shape) |->
        IF id \in 1..Len(shape) THEN TopElement(shape[id]) ELSE CodeElement]

KidsOf(shape) ==
    [id \in {Root} \cup (1..Len(shape)) \cup AllCodeIds(shape) |->
        IF id = Root THEN [i \in 1..Len(shape) |-> i]
        ELSE IF id \in 1..Len(shape) THEN CodeIds(shape, id)
        ELSE <<>>]

\* visitParents(tree, "element", ...): every element with its ancestors, in pre-order.
RECURSIVE MatchesFrom(_, _)
MatchesFrom(shape, i) ==
    IF i > Len(shape) THEN <<>>
    ELSE <<[element |-> i, parents |-> <<Root>>]>>
         \o [j \in 1..Len(CodeIds(shape, i)) |->
                [element |-> CodeIds(shape, i)[j], parents |-> <<Root, i>>]]
         \o MatchesFrom(shape, i + 1)

NoNode == -1

InitTypst ==
    /\ IdleGloss /\ IdleFn
    /\ \E shape \in SeqUpTo(TopKinds, MaxTop) :
          /\ elems = ElemsOf(shape)
          /\ kids = KidsOf(shape)
          /\ visitors = [v \in 1..Len(MatchesFrom(shape, 1)) |->
                            [element |-> MatchesFrom(shape, 1)[v].element,
                             parents |-> MatchesFrom(shape, 1)[v].parents,
                             pc      |-> "start",
                             scope   |-> NoNode,
                             parent  |-> NoNode]]

MathClasses == {"language-math", "language-typst", "math-display", "math-inline"}

\* Lines 46-64: the scope a visitor replaces and the parent it replaces it in; the
\* parent is NoNode when the code has none (`if (!parent) return`).
ScopeOf(element, parents) ==
    LET parent == parents[Len(parents)]
    IN  IF /\ elems[element].tagName = "code"
           /\ elems[element].className \cap {"language-math", "language-typst"} # {}
           /\ parent # Root
           /\ elems[parent].tagName = "pre"
        THEN [scope  |-> parent,
              parent |-> IF Len(parents) >= 2 THEN parents[Len(parents) - 1] ELSE NoNode]
        ELSE [scope |-> element, parent |-> parent]

\* The id of the element a visitor's rendering yields (the svg, or the error span).
Rendered(v) == 100 + v

\* array.indexOf(x), 0-based, -1 when x is not in the array.
IndexOf(array, x) ==
    IF \E i \in 1..Len(array) : array[i] = x
    THEN (CHOOSE i \in 1..Len(array) : array[i] = x /\ \A j \in 1..(i - 1) : array[j] # x) - 1
    ELSE -1

\* array.splice(index, 1, ...elements): a negative index counts from the end.
Splice(array, index, elements) ==
    LET len   == Len(array)
        start == IF index < 0
                 THEN (IF len + index > 0 THEN len + index ELSE 0)
                 ELSE (IF index < len THEN index ELSE len)
        del   == IF len - start < 1 THEN len - start ELSE 1
    IN  SubSeq(array, 1, start) \o elements \o SubSeq(array, start + del + 1, len)

\* The synchronous part of a visitor call, up to `await renderToSVGString(...)`. The
\* calls are started in the order of matches, each running to its first await.
Start(v) ==
    /\ visitors[v].pc = "start"
    /\ \A u \in 1..(v - 1) : visitors[u].pc # "start"
    /\ LET vis == visitors[v]
           sc  == ScopeOf(vis.element, vis.parents)
       IN  IF elems[vis.element].className \cap MathClasses = {} \/ sc.parent = NoNode
           THEN visitors' = [visitors EXCEPT ![v].pc = "returned"]
           ELSE visitors' = [visitors EXCEPT ![v].pc = "awaiting",
                                             ![v].scope = sc.scope,
                                             ![v].parent = sc.parent]
    /\ UNCHANGED <<elems, kids, glossVars, fnVars>>

\* The rest of a visitor call, once its rendering settled (lines 128-130). No
\* continuation runs before every call was started.
Resume(v) ==
    /\ visitors[v].pc = "awaiting"
    /\ \A u \in 1..Len(visitors) : visitors[u].pc # "start"
    /\ LET parent == visitors[v].parent
           index  == IndexOf(kids[parent], visitors[v].scope)
       IN  kids' = [kids EXCEPT ![parent] = Splice(@, index, <<Rendered(v)>>)]
    /\ visitors' = [visitors EXCEPT ![v].pc = "done"]
    /\ UNCHANGED <<elems, glossVars, fnVars>>

NextTypst ==
    \/ \E v \in 1..Len(visitors) : Start(v)
    \/ \E v \in 1..Len(visitors) : Resume(v)

SpecTypst == InitTypst /\ [][NextTypst]_vars

---------------------------------------------------------------------------
(* Harness of the pure functions *)

Chars      == {"a", " ", "\n"}
InlineNodes(len) == {Break, Rich("r1")} \cup {Text(s) : s \in SeqUpTo(Chars, len)}
Paragraphs(len, n) ==
    {[type |-> "paragraph", children |-> c] : c \in SeqUpTo(InlineNodes(len), n)}

InitLines ==
    /\ IdleGloss /\ IdleTypst
    /\ call = "extractLines" /\ arg \in Paragraphs(MaxTextLen, MaxInline) /\ res = <<>>

CallExtractLines ==
    /\ call = "extractLines" /\ res = <<>>
    /\ res' = Some(extractLines(arg))
    /\ UNCHANGED <<call, arg, glossVars, typstVars>>

NextLines == CallExtractLines
SpecLines == InitLines /\ [][NextLines]_vars

\* Lines handed to parseLinePrefix: the first span of the first word ranges over every
\* short text and a rich node; later spans and words over a few fixed ones.
PrefixChars == {"|", "/", "=", "a", " "}
FirstSpans(len) == {Rich("r1")} \cup {Text(s) : s \in SeqUpTo(PrefixChars, len)}
LaterSpans  == {Rich("r2"), Text(<<"=">>)}
FirstWords(len, n) ==
    {<<>>} \cup {<<f>> \o t : f \in FirstSpans(len), t \in SeqUpTo(LaterSpans, n)}
LaterWords  == {<<Text(<<"b">>)>>, <<Text(<<"|">>), Rich("r3")>>}
PrefixLines(len, n) ==
    {<<>>} \cup {<<w>> \o t : w \in FirstWords(len, n), t \in SeqUpTo(LaterWords, n)}

InitPrefix ==
    /\ IdleGloss /\ IdleTypst
    /\ call = "parseLinePrefix" /\ arg \in PrefixLines(MaxPrefixLen, MaxRest) /\ res = <<>>

CallParseLinePrefix ==
    /\ call = "parseLinePrefix" /\ res = <<>>
    /\ res' = Some(parseLinePrefix(arg))
    /\ UNCHANGED <<call, arg, glossVars, typstVars>>

NextPrefix == CallParseLinePrefix
SpecPrefix == InitPrefix /\ [][NextPrefix]_vars

\* Rows handed to buildColumns: every word is its own (row, column) text, so a word
\* that lands in another row or column shows.
Digit == <<"0", "1", "2", "3", "4", "5", "6", "7", "8", "9">>
WordAt(i, j) == <<Text(<<"w", Digit[i + 1], Digit[j + 1]>>)>>
RowTypes == {"text", "transliteration", "gloss"}
RowShapes(maxWords) == [type : RowTypes, n : 0..maxWords]
RowsOf(shapes) ==
    [i \in 1..Len(shapes) |->
        [type |-> shapes[i].type, words |-> [j \in 1..shapes[i].n |-> WordAt(i, j)]]]
RowLists(maxRows, maxWords) == {RowsOf(sh) : sh \in SeqUpTo(RowShapes(maxWords), maxRows)}

InitColumns ==
    /\ IdleGloss /\ IdleTypst
    /\ call = "buildColumns" /\ arg \in RowLists(MaxRows, MaxRowWords) /\ res = <<>>

CallBuildColumns ==
    /\ call = "buildColumns" /\ res = <<>>
    /\ res' = Some(buildColumns(arg))
    /\ UNCHANGED <<call, arg, glossVars, typstVars>>

NextColumns == CallBuildColumns
SpecColumns == InitColumns /\ [][NextColumns]_vars

---------------------------------------------------------------------------
(* Properties *)

Range(f) == {f[x] : x \in DOMAIN f}

IsMetaLine(line) == line.type = "meta"
IsRowLine(line)  == line.type = "row"

\* The rows of the non-meta lines, in the lines' order.
RowsAmong(lines) ==
    LET kept == SelectSeq(lines, IsRowLine)
    IN  [k \in 1..Len(kept) |-> kept[k].row]

HasInteriorMeta(lines) == \E i \in 2..(Len(lines) - 1) : IsMetaLine(lines[i])

\* The visitor has run on the one block of a single-block document.
BlockVisited == Len(source) = 1 /\ IsGloss(source[1]) /\ cursor > 1

\* C1. Placement law of parseGlossNode. For the n classified lines of a block: a meta
\* line at index 0 is the header, a meta line at index n-1 with n > 1 is the footer, a
\* meta line anywhere else makes parseGlossNode throw; the rows are the other lines in
\* order. A block whose only line is meta has a header, no footer and no rows; no
\* header or footer comes from an interior line.
PlacementLaw ==
    BlockVisited =>
        LET lines == ClassifiedLines(source[1].children)
            n     == Len(lines)
        IN  IF HasInteriorMeta(lines)
            THEN thrown # <<>> /\ parseResult = None
            ELSE /\ thrown = <<>>
                 /\ parseResult # None
                 /\ parseResult[1].header =
                        (IF n >= 1 /\ IsMetaLine(lines[1]) THEN Some(lines[1].content) ELSE None)
                 /\ parseResult[1].footer =
                        (IF n > 1 /\ IsMetaLine(lines[n]) THEN Some(lines[n].content) ELSE None)
                 /\ parseResult[1].rows = RowsAmong(lines)
                 /\ (n = 1 /\ IsMetaLine(lines[1]) =>
                        /\ parseResult[1].header # None
                        /\ parseResult[1].footer = None
                        /\ parseResult[1].rows = <<>>)

\* A block with rows between a header and a different footer was assembled.
PlacementWitness ==
    /\ BlockVisited
    /\ parseResult # None
    /\ parseResult[1].header # None
    /\ parseResult[1].footer # None
    /\ parseResult[1].header # parseResult[1].footer
    /\ parseResult[1].rows # <<>>

Transformed(node) == "data" \in DOMAIN node /\ node.data = FigureData

IsOutputNode(child) == child.type \in {"paragraph", "list"} /\ "data" \in DOMAIN child

\* C3. A gloss block is either rewritten whole or fails, never both: a block whose
\* parse threw has the data and children it had before, nothing of the header, rows
\* or footer read before the throw being written; any other node is either untouched
\* or a figure all of whose children are freshly built header, grid or footer nodes.
AllOrNothing ==
    \A i \in 1..Len(tree) :
        /\ (i < cursor /\ IsGloss(source[i]) /\ parseGlossNode(source[i]).threw) =>
              /\ thrown # <<>> /\ thrown[1].node = i
              /\ tree[i] = source[i]
        /\ \/ tree[i] = source[i]
           \/ /\ i < cursor
              /\ IsGloss(source[i])
              /\ ~parseGlossNode(source[i]).threw
              /\ ~(thrown # <<>> /\ thrown[1].node = i)
              /\ Transformed(tree[i])
              /\ \A k \in 1..Len(tree[i].children) : IsOutputNode(tree[i].children[k])

\* A block failed after parseGlossNode had already read a header and a row.
AllOrNothingWitness ==
    /\ thrown # <<>>
    /\ parseGlossNode(source[thrown[1].node]).header # None
    /\ parseGlossNode(source[thrown[1].node]).rows # <<>>
    /\ \E i \in 1..(thrown[1].node - 1) : Transformed(tree[i])

BuildColumnsCalled == call = "buildColumns" /\ res # <<>>

\* C4. Column count law: buildColumns returns as many columns as the longest row has
\* words, and none when there is no row or no row has a word.
ColumnCountLaw ==
    BuildColumnsCalled =>
        /\ \A i \in 1..Len(arg) : Len(arg[i].words) <= Len(res[1])
        /\ Len(res[1]) = 0 \/ \E i \in 1..Len(arg) : Len(arg[i].words) = Len(res[1])

\* Rows of different lengths, the longest not the first.
ColumnCountWitness ==
    /\ BuildColumnsCalled
    /\ Len(arg) >= 2
    /\ Len(res[1]) > Len(arg[1].words)
    /\ \E i \in 1..Len(arg) : Len(arg[i].words) = 0

CellsOf(column) == column.children[1].children

\* C5. Absence law: column j has one cell per row, in row order; cell i carries the
\* type of row i and holds word j of row i when the row has one, and is absent
\* otherwise, so a cell is absent iff its column index is at least its row's word
\* count; no word shows up in another row or column.
AbsenceLaw ==
    BuildColumnsCalled =>
        \A j \in 1..Len(res[1]) :
            /\ Len(ColumnWords(arg, j)) = Len(arg)
            /\ Len(CellsOf(res[1][j])) = Len(arg)
            /\ \A i \in 1..Len(arg) :
                  /\ ColumnWords(arg, j)[i].type = arg[i].type
                  /\ (ColumnWords(arg, j)[i].word = None) <=> (j > Len(arg[i].words))
                  /\ j <= Len(arg[i].words) => ColumnWords(arg, j)[i].word = Some(arg[i].words[j])
                  /\ CellsOf(res[1][j])[i].data.class = "gloss-word gloss-word-" \o arg[i].type
                  /\ CellsOf(res[1][j])[i].children =
                        (IF j <= Len(arg[i].words)
                         THEN <<[type |-> "paragraph", children |-> arg[i].words[j]]>>
                         ELSE <<>>)

\* A column with a cell of a row that has the word and a cell of a row that has not.
AbsenceWitness ==
    /\ BuildColumnsCalled
    /\ \E j \in 1..Len(res[1]) : \E i1, i2 \in 1..Len(arg) :
          /\ CellsOf(res[1][j])[i1].children # <<>>
          /\ CellsOf(res[1][j])[i2].children = <<>>
          /\ i2 < i1

\* The lines extractLines yields for the paragraphs of a block, before classification.
ExtractedLines(children) ==
    Flatten([k \in 1..Len(children) |->
                IF children[k].type = "paragraph" THEN extractLines(children[k]) ELSE <<>>])

FirstChar(line) == line[1][1].value[1]

StartsWithBar(line) == line[1][1].type = "text" /\ FirstChar(line) = "|"

\* A line that is nothing but the marker of a row.
BareMarker(line) == line \in {<<<<Text(<<"=">>)>>>>, <<<<Text(<<"/">>)>>>>}

BareRole(line) == IF FirstChar(line) = "=" THEN "gloss" ELSE "transliteration"

\* C6. A line that is only a row marker is kept as a row of its role with no words;
\* when no row has words the block has no column and no word grid is emitted.
BareMarkerLaw ==
    (BlockVisited /\ parseResult # None) =>
        LET lines == ExtractedLines(source[1].children)
            rows  == parseResult[1].rows
            RowIndex(i) == Cardinality({k \in 1..i : ~StartsWithBar(lines[k])})
        IN  /\ Len(rows) = RowIndex(Len(lines))
            /\ \A i \in 1..Len(lines) :
                  BareMarker(lines[i]) =>
                      rows[RowIndex(i)] = [type |-> BareRole(lines[i]), words |-> <<>>]
            /\ (\A k \in 1..Len(rows) : rows[k].words = <<>>) =>
                  /\ buildColumns(rows) = <<>>
                  /\ \A c \in 1..Len(tree[1].children) : tree[1].children[c].type # "list"

\* A block whose rows are all bare markers was rewritten, without a grid.
BareMarkerWitness ==
    /\ BlockVisited /\ parseResult # None
    /\ Len(parseResult[1].rows) >= 2
    /\ \A k \in 1..Len(parseResult[1].rows) : parseResult[1].rows[k].words = <<>>
    /\ \E i \in 1..Len(ExtractedLines(source[1].children)) :
          BareMarker(ExtractedLines(source[1].children)[i])
    /\ Transformed(tree[1])

IsRichNode(node) == node.type \notin {"text", "break"}

NotSpace(c) == ~IsSpace(c)

\* The content of a sequence of inline nodes with whitespace and breaks left out: the
\* characters of its text nodes one by one, and its rich nodes whole, in order.
ContentStream(nodes) ==
    Flatten([i \in 1..Len(nodes) |->
                IF nodes[i].type = "text"
                THEN [k \in 1..Len(SelectSeq(nodes[i].value, NotSpace)) |->
                         Text(<<SelectSeq(nodes[i].value, NotSpace)[k]>>)]
                ELSE IF nodes[i].type = "break" THEN <<>>
                ELSE <<nodes[i]>>])

ExtractLinesCalled == call = "extractLines" /\ res # <<>>

\* C7. extractLines returns non-empty lines of non-empty words; the text spans it makes
\* are non-empty and hold no whitespace; every rich node is there once and whole; lines,
\* words and spans are in source order.
ExtractLinesLaw ==
    ExtractLinesCalled =>
        LET lines == res[1]
            spans == Flatten(Flatten(lines))
        IN  /\ \A i \in 1..Len(lines) :
                  /\ Len(lines[i]) > 0
                  /\ \A j \in 1..Len(lines[i]) : Len(lines[i][j]) > 0
            /\ \A k \in 1..Len(spans) :
                  spans[k].type = "text" =>
                      /\ spans[k].value # <<>>
                      /\ \A c \in 1..Len(spans[k].value) : ~IsSpace(spans[k].value[c])
            /\ \A k \in 1..Len(spans) : spans[k].type # "break"
            /\ SelectSeq(spans, IsRichNode) = SelectSeq(arg.children, IsRichNode)
            /\ ContentStream(spans) = ContentStream(arg.children)

\* A paragraph with a rich node, of which an empty line was dropped.
ExtractLinesWitness ==
    /\ ExtractLinesCalled
    /\ \E i \in 1..Len(arg.children) : IsRichNode(arg.children[i])
    /\ res[1] # <<>>
    /\ Len(ChildLoop(arg.children, <<<<<<>>>>>>)) > Len(res[1])

RECURSIVE StripSpaces(_)
StripSpaces(text) ==
    IF text # <<>> /\ IsSpace(Head(text)) THEN StripSpaces(Tail(text)) ELSE text

HasMarker(words) ==
    /\ words # <<>>
    /\ words[1] # <<>>
    /\ words[1][1].type = "text"
    /\ words[1][1].value # <<>>
    /\ words[1][1].value[1] \in {"|", "/", "="}

RoleOfMarker(m) ==
    CASE m = "|" -> "meta"
      [] m = "/" -> "transliteration"
      [] m = "=" -> "gloss"

\* The words of a marked line without the marker and the whitespace after it.
Unmarked(words) ==
    LET rest == StripSpaces(Tail(words[1][1].value))
    IN  IF rest # <<>> THEN [words EXCEPT ![1] = [words[1] EXCEPT ![1] = Text(rest)]]
        ELSE IF Len(words[1]) > 1 THEN [words EXCEPT ![1] = Tail(words[1])]
        ELSE Tail(words)

SpaceJoined(words) ==
    Flatten([i \in 1..Len(words) |->
                IF i = 1 THEN words[i] ELSE <<Text(<<" ">>)>> \o words[i]])

ParseLinePrefixCalled == call = "parseLinePrefix" /\ res # <<>>

\* C8. parseLinePrefix takes the role from the first span of the first word alone: a
\* plain text starting with '|', '/' or '=' gives meta, transliteration or gloss, and
\* that one character and the whitespace after it are removed from the span, the span
\* dropped when empty, the word dropped when empty, everything later unchanged (a meta
\* line's words being joined by single spaces); otherwise the role is text and the
\* words are returned as they came.
PrefixLaw ==
    ParseLinePrefixCalled =>
        IF HasMarker(arg)
        THEN /\ res[1].type = RoleOfMarker(arg[1][1].value[1])
             /\ IF res[1].type = "meta"
                THEN res[1].content = SpaceJoined(Unmarked(arg))
                ELSE res[1].words = Unmarked(arg)
        ELSE res[1].type = "text" /\ res[1].words = arg

\* A row line whose first word was only the marker and whitespace: the word is gone,
\* the later word is still there.
PrefixWitness ==
    /\ ParseLinePrefixCalled
    /\ HasMarker(arg)
    /\ Len(arg[1][1].value) >= 2
    /\ res[1].type # "meta"
    /\ Len(arg) >= 2
    /\ Len(res[1].words) = Len(arg) - 1

\* The lines of the paragraphs of a block, paragraph after paragraph.
BlockWideLines(children) ==
    Flatten([k \in 1..Len(children) |->
                IF children[k].type = "paragraph" THEN ParagraphLines(children[k]) ELSE <<>>])

\* C9. The non-empty lines of all paragraph children of a block form one list, in
\* child order, and meta placement is judged on the index in that list: a meta line
\* that is first or last in its paragraph but interior to the block is an error;
\* children that are not paragraphs add no line.
BlockWideLaw ==
    BlockVisited =>
        LET lines == BlockWideLines(source[1].children)
        IN  /\ (thrown # <<>>) <=> HasInteriorMeta(lines)
            /\ parseResult # None =>
                  /\ parseResult[1].rows = RowsAmong(lines)
                  /\ (parseResult[1].header # None) <=> (lines # <<>> /\ IsMetaLine(lines[1]))
                  /\ (parseResult[1].footer # None) <=>
                        (Len(lines) > 1 /\ IsMetaLine(lines[Len(lines)]))

\* A block of several paragraphs and a code block failed although no paragraph has a
\* meta line in its own interior.
BlockWideWitness ==
    /\ BlockVisited
    /\ thrown # <<>>
    /\ \E k \in 1..Len(source[1].children) : source[1].children[k].type = "code"
    /\ \A k \in 1..Len(source[1].children) :
          source[1].children[k].type = "paragraph" =>
              ~HasInteriorMeta(ParagraphLines(source[1].children[k]))

\* C10. In rehypeTypst no visitor removes or replaces a child that is not a matched
\* scope: every plain element of the root is still a child of the root, whatever the
\* order in which the renderings settle.
BystandersKept ==
    \A id \in DOMAIN elems :
        elems[id].tagName = "p" => id \in Range(kids[Root])

====
